---- MODULE Spec2Model ----
(***************************************************************************)
(* Mood tracker: Flask ingestion/tuning service (app.py, app2.py) and the  *)
(* Spotify player daemon (mood_analyzer2.py) sharing the sensor_readings   *)
(* and thresholds tables.                                                  *)
(*                                                                         *)
(* Temperatures are integers in hundredths of a degree Celsius             *)
(* (36.1 C = 3610), so the tuning margins 0.1 / 0.2 are 10 / 20.           *)
(* Timestamps are integers (seconds); the wall clock read by               *)
(* datetime.now() / datetime.utcnow() is an input of each request.         *)
(* Columns the claims never read (device_id, gyro_*, humidity,             *)
(* playlist_id, updated_at) are not part of the state.                     *)
(***************************************************************************)
EXTENDS Integers, Sequences, FiniteSets, TLC

VARIABLES readings, thresholds, tuning_log, daemon, plays, cls, req, resp, isolation,
          playback

vars == <<readings, thresholds, tuning_log, daemon, plays, cls, req, resp, isolation,
          playback>>

\* the requests in flight in the web service, its last response, and the
\* isolation level of the store it is deployed on
web == <<req, resp, isolation>>

(* ---------------------------- bounds ----------------------------------- *)
MaxReadings == 2
MaxTunes == 1
MaxTs == 1
MaxWebTunes == 2

(* ---------------------------- constants -------------------------------- *)
DAEMONS == {1, 2}
NoMood == "none"
DefaultMood == "calm"
MarginWiden == 10
MarginNew == 20

\* request handlers of the web service that run at the same time
WORKERS == {1, 2}
\* a request body without a temperature field
NoTemp == -1
\* SQLite (the default DATABASE_URL) re-reads committed rows inside a
\* transaction; MySQL/InnoDB reads from the snapshot of the transaction's
\* first SELECT
Isolations == {"read_committed", "repeatable_read"}

\* mutant: the seeded "happy" reaches up to the lower bound of "energetic"
DEFAULT_THRESHOLDS_overlap ==
    [m \in {"calm", "happy", "energetic", "stressed", "anxious"} |->
        CASE m = "calm"      -> [min |-> 3610, max |-> 3650]
          [] m = "happy"     -> [min |-> 3660, max |-> 3710]
          [] m = "energetic" -> [min |-> 3710, max |-> 3750]
          [] m = "stressed"  -> [min |-> 3760, max |-> 3800]
          [] m = "anxious"   -> [min |-> 3810, max |-> 3900]]

DEFAULT_THRESHOLDS ==
    [m \in {"calm", "happy", "energetic", "stressed", "anxious"} |->
        CASE m = "calm"      -> [min |-> 3610, max |-> 3650]
          [] m = "happy"     -> [min |-> 3660, max |-> 3700]
          [] m = "energetic" -> [min |-> 3710, max |-> 3750]
          [] m = "stressed"  -> [min |-> 3760, max |-> 3800]
          [] m = "anxious"   -> [min |-> 3810, max |-> 3900]]

mood_playlists == {"calm", "happy", "energetic", "stressed", "anxious"}

(* inputs of the requests of the dispatch specification *)
TimeStamps == 0..MaxTs
DispatchTemps == {3680}
DeclaredMoods == {"furious"}

(* inputs of the classification specification: below every interval, on the
   bounds of intervals, in the gap between 37.0 and 37.1, inside "energetic",
   above every interval *)
ClassifyTemps == {3600, 3610, 3700, 3705, 3710, 3730, 3950}
TuneMoods == {"happy", "furious"}
TuneTemps == {3705, 3730, 3950}

(* inputs of the request-by-request specifications: 36.8 is inside the default
   "happy"; 37.3 is above it and inside the default "energetic"; 39.5 is
   above every default interval *)
IngestTemps == {3680}
WebMoods == {"happy", "furious"}
WebTemps == {3730, 3950}
\* no handler of the web service reads a timestamp
WebTimes == {0}

(* ---------------------------- classifier ------------------------------- *)
\* mutant: the rows are those read when the service started, the seeded ones
load_user_thresholds_cached(th, ord) ==
    [i \in 1..Len(ord) |->
        IF ord[i] \in DOMAIN DEFAULT_THRESHOLDS
        THEN [mood |-> ord[i], min |-> DEFAULT_THRESHOLDS[ord[i]].min,
              max |-> DEFAULT_THRESHOLDS[ord[i]].max]
        ELSE [mood |-> ord[i], min |-> 1, max |-> 0]]

\* rows of Threshold.query.all(): the table's rows in an order the store picks
load_user_thresholds(th, ord) ==
    [i \in 1..Len(ord) |-> [mood |-> ord[i], min |-> th[ord[i]].min, max |-> th[ord[i]].max]]

RECURSIVE SeqOf(_)
SeqOf(S) ==
    IF S = {} THEN <<>>
    ELSE LET x == CHOOSE y \in S : TRUE IN <<x>> \o SeqOf(S \ {x})

\* one scan order per leading row: the classifier returns the first matching
\* row, so these orders produce every result that any order of the rows gives
ScanOrders(S) == IF S = {} THEN {<<>>} ELSE {<<m>> \o SeqOf(S \ {m}) : m \in S}

RECURSIVE Reverse(_)
Reverse(q) == IF q = <<>> THEN <<>> ELSE Append(Reverse(Tail(q)), Head(q))

\* scan orders of the classification specification
ClassifyOrders(S) == ScanOrders(S) \cup {Reverse(o) : o \in ScanOrders(S)}

\* mutant: the thresholds are not consulted
determine_mood_default(temperature, rows) == DefaultMood

\* mutant: the upper bound of an interval is exclusive
RECURSIVE determine_mood_exclusive(_, _)
determine_mood_exclusive(temperature, rows) ==
    IF rows = <<>> THEN DefaultMood
    ELSE IF Head(rows).min <= temperature /\ temperature < Head(rows).max
         THEN Head(rows).mood
         ELSE determine_mood_exclusive(temperature, Tail(rows))

RECURSIVE determine_mood_from_temperature(_, _)
determine_mood_from_temperature(temperature, rows) ==
    IF rows = <<>> THEN DefaultMood
    ELSE IF Head(rows).min <= temperature /\ temperature <= Head(rows).max
         THEN Head(rows).mood
         ELSE determine_mood_from_temperature(temperature, Tail(rows))

\* one call of determine_mood_from_temperature against the current table
classify(t, ord) ==
    /\ cls' = [t |-> t, rows |-> load_user_thresholds(thresholds, ord),
               mood |-> determine_mood_from_temperature(t, load_user_thresholds(thresholds, ord))]
    /\ UNCHANGED <<readings, thresholds, tuning_log, daemon, plays, web, playback>>

(* ---------------------------- ledger ----------------------------------- *)
SensorReading(ts, temp, mood, source) ==
    [timestamp |-> ts, temperature |-> temp, user_mood |-> mood,
     mood_source |-> source, playlist_played |-> FALSE]

Pending == {i \in DOMAIN readings : ~readings[i].playlist_played}

\* mutant: the query skips readings whose mood has no playlist
SelectOldestPlayable ==
    {i \in Pending : /\ readings[i].user_mood \in mood_playlists
                     /\ \A j \in Pending : readings[j].user_mood \in mood_playlists =>
                            readings[i].timestamp <= readings[j].timestamp}

\* mutant: ORDER BY timestamp DESC, the newest pending reading
SelectNewestPending ==
    {i \in Pending : \A j \in Pending : readings[i].timestamp >= readings[j].timestamp}

\* SELECT ... WHERE playlist_played = False ORDER BY timestamp ASC LIMIT 1:
\* the rows the store may return; rows of equal timestamp have no defined order
SelectOldestPending ==
    {i \in Pending : \A j \in Pending : readings[i].timestamp <= readings[j].timestamp}

(* ---------------------------- initial state ---------------------------- *)
\* three pending readings stamped 10:00:00, 10:00:05, 10:00:01 (seconds after
\* 10:00:00), ids 1, 2, 3 in insertion order
OrderScenario ==
    << SensorReading(0, 3680, "happy", "threshold"),
       SensorReading(5, 3680, "happy", "threshold"),
       SensorReading(1, 3680, "happy", "threshold") >>

ReadingIds == 1..(IF MaxReadings > Len(OrderScenario) THEN MaxReadings ELSE Len(OrderScenario))

\* per reading id: how often play_mood_playlist was called for it and what the
\* last call came to
NoPlays == [i \in ReadingIds |-> [count |-> 0, outcome |-> "none"]]

\* the last standalone call of determine_mood_from_temperature: its argument,
\* the rows load_user_thresholds gave it, and what it returned
NoCall == [t |-> 0, rows |-> <<>>, mood |-> NoMood]

NewDaemon(sp) ==
    [sp |-> sp, pc |-> "new", reading_id |-> 0, mood |-> NoMood]

\* play_mood_playlist has not been called on its own yet
NoPlayback ==
    [called |-> FALSE, sp |-> FALSE, mood |-> NoMood, devices |-> <<>>,
     requests |-> <<>>, result |-> FALSE]

\* a worker of the web service with no request in flight
IdleReq ==
    [pc |-> "idle", rev |-> 0, mood |-> NoMood, t |-> 0, snap |-> <<>>,
     iv |-> [min |-> 0, max |-> 0]]

\* no response sent yet
NoResp == [route |-> "none", status |-> 0, mood |-> NoMood, min |-> 0, max |-> 0]

\* the web service as the dispatch specifications see it: every request is one
\* step and its response is not observed
WebAtomic ==
    /\ req = [w \in WORKERS |-> IdleReq]
    /\ resp = NoResp
    /\ isolation = "read_committed"

Init ==
    /\ readings = <<>>
    /\ thresholds = DEFAULT_THRESHOLDS
    /\ tuning_log = <<>>
    /\ daemon \in {[d \in DAEMONS |-> NewDaemon(s[d])] : s \in [DAEMONS -> BOOLEAN]}
    /\ plays = NoPlays
    /\ cls = NoCall
    /\ playback = NoPlayback
    /\ WebAtomic

\* the thresholds table is seeded, or empty (app2.py logs and swallows a
\* failed seeding); nothing has been classified yet
InitClassify ==
    /\ readings = <<>>
    /\ thresholds \in {DEFAULT_THRESHOLDS, [m \in {} |-> [min |-> 0, max |-> 0]]}
    /\ tuning_log = <<>>
    /\ daemon = [d \in DAEMONS |-> NewDaemon(FALSE)]
    /\ plays = NoPlays
    /\ cls = NoCall
    /\ playback = NoPlayback
    /\ WebAtomic

\* the ledger holds the three readings of the ordering scenario, all pending
InitOrder ==
    /\ readings = OrderScenario
    /\ thresholds = DEFAULT_THRESHOLDS
    /\ tuning_log = <<>>
    /\ daemon \in {[d \in DAEMONS |-> NewDaemon(s[d])] : s \in [DAEMONS -> BOOLEAN]}
    /\ plays = NoPlays
    /\ cls = NoCall
    /\ playback = NoPlayback
    /\ WebAtomic

(* ---------------------------- web service ------------------------------ *)
\* mutant: seeding writes every default category again
seed_rows_overwrite(th) ==
    [m \in DOMAIN th \cup DOMAIN DEFAULT_THRESHOLDS |->
        IF m \in DOMAIN DEFAULT_THRESHOLDS THEN DEFAULT_THRESHOLDS[m] ELSE th[m]]

\* the thresholds table after seed_default_thresholds: the default categories
\* that were absent are inserted, the rows that existed are not touched
seed_rows(th) ==
    [m \in DOMAIN th \cup DOMAIN DEFAULT_THRESHOLDS |->
        IF m \in DOMAIN th THEN th[m] ELSE DEFAULT_THRESHOLDS[m]]

\* seed_default_thresholds, run when the module is loaded: at every start of
\* the service, on whatever the store holds by then
seed_default_thresholds ==
    /\ thresholds' = seed_rows(thresholds)
    /\ UNCHANGED <<readings, tuning_log, daemon, plays, cls, web, playback>>

Upsert(th, mood, lo, hi) ==
    [m \in DOMAIN th \cup {mood} |-> IF m = mood THEN [min |-> lo, max |-> hi] ELSE th[m]]

\* mutant: an existing category is widened by the margin of a new one
tune_interval_wide(th, mood, t) ==
    IF mood \in DOMAIN th
    THEN [min |-> IF th[mood].min <= t - MarginNew THEN th[mood].min ELSE t - MarginNew,
          max |-> IF th[mood].max >= t + MarginNew THEN th[mood].max ELSE t + MarginNew]
    ELSE [min |-> t - MarginNew, max |-> t + MarginNew]

\* mutant: an existing category is re-centred on the reported temperature
tune_interval_recentre(th, mood, t) ==
    IF mood \in DOMAIN th
    THEN [min |-> t - MarginWiden, max |-> t + MarginWiden]
    ELSE [min |-> t - MarginNew, max |-> t + MarginNew]

\* mutant: a new category is stored with its bounds the wrong way round
tune_interval_swapped(th, mood, t) ==
    IF mood \in DOMAIN th
    THEN [min |-> IF th[mood].min <= t - MarginWiden THEN th[mood].min ELSE t - MarginWiden,
          max |-> IF th[mood].max >= t + MarginWiden THEN th[mood].max ELSE t + MarginWiden]
    ELSE [min |-> t + MarginNew, max |-> t - MarginNew]

\* mutant: the interval reaches the reported temperature, with no margin
tune_interval_nomargin(th, mood, t) ==
    IF mood \in DOMAIN th
    THEN [min |-> IF th[mood].min <= t THEN th[mood].min ELSE t,
          max |-> IF th[mood].max >= t THEN th[mood].max ELSE t]
    ELSE [min |-> t, max |-> t]

\* the interval computed by tune_mood from the snapshot it loaded
tune_interval(th, mood, t) ==
    IF mood \in DOMAIN th
    THEN [min |-> IF th[mood].min <= t - MarginWiden THEN th[mood].min ELSE t - MarginWiden,
          max |-> IF th[mood].max >= t + MarginWiden THEN th[mood].max ELSE t + MarginWiden]
    ELSE [min |-> t - MarginNew, max |-> t + MarginNew]

\* mutant: the row records the margin around the temperature, not the
\* interval that was written
TuningLog_margin(t, mood, iv) ==
    [temperature |-> t, reported_mood |-> mood,
     min_temp |-> t - MarginWiden, max_temp |-> t + MarginWiden]

TuningLog(t, mood, iv) ==
    [temperature |-> t, reported_mood |-> mood, min_temp |-> iv.min, max_temp |-> iv.max]

\* app.py /api/sensor-data: declared mood if present and non-empty, else classified
receive_sensor_data(t, um, now, ord) ==
    /\ Len(readings) < MaxReadings
    /\    LET mood == IF um # NoMood THEN um
                      ELSE determine_mood_from_temperature(t, load_user_thresholds(thresholds, ord))
              source == IF um # NoMood THEN "manual" ELSE "threshold"
          IN readings' = Append(readings, SensorReading(now, t, mood, source))
    /\ UNCHANGED <<thresholds, tuning_log, daemon, plays, cls, web, playback>>

\* app2.py /api/sensor-data: always classified
receive_sensor_data2(t, now, ord) ==
    /\ Len(readings) < MaxReadings
    /\    LET mood == determine_mood_from_temperature(t, load_user_thresholds(thresholds, ord))
          IN readings' = Append(readings, SensorReading(now, t, mood, "threshold"))
    /\ UNCHANGED <<thresholds, tuning_log, daemon, plays, cls, web, playback>>

\* mutant: rewriting the latest reading also re-arms it for playback
manual_mood_selection_rearm(mood, hasTemp, t, now) ==
    /\ IF hasTemp
       THEN /\ Len(readings) < MaxReadings
            /\ readings' = Append(readings, SensorReading(now, t, mood, "manual"))
       ELSE /\ readings # <<>>
            /\ readings' = [readings EXCEPT ![Len(readings)].user_mood = mood,
                                            ![Len(readings)].mood_source = "manual",
                                            ![Len(readings)].playlist_played = FALSE]
    /\ UNCHANGED <<thresholds, tuning_log, daemon, plays, cls, web, playback>>

\* app.py /api/manual-mood: a new reading when a temperature is sent, else the
\* latest reading (largest id) is rewritten
manual_mood_selection(mood, hasTemp, t, now) ==
    /\ IF hasTemp
       THEN /\ Len(readings) < MaxReadings
            /\ readings' = Append(readings, SensorReading(now, t, mood, "manual"))
       ELSE /\ readings # <<>>
            /\ readings' = [readings EXCEPT ![Len(readings)].user_mood = mood,
                                            ![Len(readings)].mood_source = "manual"]
    /\ UNCHANGED <<thresholds, tuning_log, daemon, plays, cls, web, playback>>

\* app.py /api/tune-mood: threshold upsert and tuning log row, no reading
tune_mood(mood, t) ==
    /\ Len(tuning_log) < MaxTunes
    /\ LET iv == tune_interval(thresholds, mood, t)
       IN /\ thresholds' = Upsert(thresholds, mood, iv.min, iv.max)
          /\ tuning_log' = Append(tuning_log, TuningLog(t, mood, iv))
    /\ UNCHANGED <<readings, daemon, plays, cls, web, playback>>

\* app2.py /api/tune-mood: a manual reading, threshold upsert and tuning log row
tune_mood2(mood, t, now) ==
    /\ Len(tuning_log) < MaxTunes
    /\ Len(readings) < MaxReadings
    /\ LET iv == tune_interval(thresholds, mood, t)
       IN /\ readings' = Append(readings, SensorReading(now, t, mood, "manual"))
          /\ thresholds' = Upsert(thresholds, mood, iv.min, iv.max)
          /\ tuning_log' = Append(tuning_log, TuningLog(t, mood, iv))
    /\ UNCHANGED <<daemon, plays, cls, web, playback>>

\* app.py /api/mark-played
mark_playlist_played(reading_id) ==
    /\ reading_id \in DOMAIN readings
    /\ readings' = [readings EXCEPT ![reading_id].playlist_played = TRUE]
    /\ UNCHANGED <<thresholds, tuning_log, daemon, plays, cls, web, playback>>

(* ------------------- web service, request by request ------------------- *)
\* The same handlers with their responses, their rejections, their failures
\* and, for /api/tune-mood, the steps between which another request can run:
\* the load of the thresholds, the commit of save_user_thresholds and the
\* commit of the tuning log row.
Response(route, status, mood, iv) ==
    [route |-> route, status |-> status, mood |-> mood, min |-> iv.min, max |-> iv.max]

NoRange == [min |-> 0, max |-> 0]

InFlight == {w \in WORKERS : req[w].pc # "idle"}

\* readings that requests in flight hold in their session, not yet committed
SessionReadings == {w \in WORKERS : req[w].pc = "loaded" /\ req[w].rev = 2}

\* app.py /api/sensor-data with its response
api_sensor_data(w, t, um, now, ord) ==
    /\ req[w].pc = "idle"
    /\ IF t = NoTemp
       THEN /\ resp' = Response("sensor-data", 400, NoMood, NoRange)
            /\ UNCHANGED readings
       ELSE /\ Len(readings) + Cardinality(SessionReadings) < MaxReadings
            /\ LET mood == IF um # NoMood THEN um
                           ELSE determine_mood_from_temperature(t,
                                    load_user_thresholds(thresholds, ord))
                   source == IF um # NoMood THEN "manual" ELSE "threshold"
               IN /\ readings' = Append(readings, SensorReading(now, t, mood, source))
                  /\ resp' = Response("sensor-data", 200, mood, NoRange)
    /\ UNCHANGED <<thresholds, tuning_log, daemon, plays, cls, req, isolation, playback>>

\* app2.py /api/sensor-data with its response: a user_mood in the body is not read
api_sensor_data2(w, t, um, now, ord) ==
    /\ req[w].pc = "idle"
    /\ IF t = NoTemp
       THEN /\ resp' = Response("sensor-data", 400, NoMood, NoRange)
            /\ UNCHANGED readings
       ELSE /\ Len(readings) + Cardinality(SessionReadings) < MaxReadings
            /\ LET mood == determine_mood_from_temperature(t,
                                load_user_thresholds(thresholds, ord))
               IN /\ readings' = Append(readings, SensorReading(now, t, mood, "threshold"))
                  /\ resp' = Response("sensor-data", 201, mood, NoRange)
    /\ UNCHANGED <<thresholds, tuning_log, daemon, plays, cls, req, isolation, playback>>

\* mutant: the reading survives the failure that is answered with 500
api_sensor_data_fails_persist(w) ==
    /\ req[w].pc = "idle"
    /\ Len(readings) + Cardinality(SessionReadings) < MaxReadings
    /\ readings' = Append(readings, SensorReading(0, 3680, DefaultMood, "threshold"))
    /\ resp' = Response("sensor-data", 500, NoMood, NoRange)
    /\ UNCHANGED <<thresholds, tuning_log, daemon, plays, cls, req, isolation, playback>>

\* either /api/sensor-data: the query or the commit raises; rollback, 500
api_sensor_data_fails(w) ==
    /\ req[w].pc = "idle"
    /\ resp' = Response("sensor-data", 500, NoMood, NoRange)
    /\ UNCHANGED <<readings, thresholds, tuning_log, daemon, plays, cls, req, isolation, playback>>

\* mutant: only a missing mood is rejected
api_tune_load_lenient(w, rev, mood, t) ==
    /\ req[w].pc = "idle"
    /\ IF mood = NoMood
       THEN /\ resp' = Response("tune-mood", 400, NoMood, NoRange)
            /\ UNCHANGED req
       ELSE /\ Len(tuning_log) + Cardinality(InFlight) < MaxWebTunes
            /\ rev = 2 => Len(readings) + Cardinality(SessionReadings) < MaxReadings
            /\ req' = [req EXCEPT ![w] =
                          [pc |-> "loaded", rev |-> rev, mood |-> mood, t |-> t,
                           snap |-> IF mood \in DOMAIN thresholds
                                    THEN <<thresholds[mood]>> ELSE <<>>,
                           iv |-> tune_interval(thresholds, mood, t)]]
            /\ UNCHANGED resp
    /\ UNCHANGED <<readings, thresholds, tuning_log, daemon, plays, cls, isolation, playback>>

\* /api/tune-mood up to the call of save_user_thresholds: the 400 check, the
\* load of the thresholds and the new interval; rev 1 is app.py, rev 2 is
\* app2.py, which has added a manual reading to its session by then
api_tune_load(w, rev, mood, t) ==
    /\ req[w].pc = "idle"
    /\ IF mood = NoMood \/ t = NoTemp
       THEN /\ resp' = Response("tune-mood", 400, NoMood, NoRange)
            /\ UNCHANGED req
       ELSE /\ Len(tuning_log) + Cardinality(InFlight) < MaxWebTunes
            /\ rev = 2 => Len(readings) + Cardinality(SessionReadings) < MaxReadings
            /\ req' = [req EXCEPT ![w] =
                          [pc |-> "loaded", rev |-> rev, mood |-> mood, t |-> t,
                           snap |-> IF mood \in DOMAIN thresholds
                                    THEN <<thresholds[mood]>> ELSE <<>>,
                           iv |-> tune_interval(thresholds, mood, t)]]
            /\ UNCHANGED resp
    /\ UNCHANGED <<readings, thresholds, tuning_log, daemon, plays, cls, isolation, playback>>

\* mutant: the save writes back the whole table, every other category as
\* seeded
save_user_thresholds_reset(th, r, iso) ==
    [m \in DOMAIN DEFAULT_THRESHOLDS \cup {r.mood} |->
        IF m = r.mood THEN r.iv ELSE DEFAULT_THRESHOLDS[m]]

\* the row save_user_thresholds leaves committed for request r. Under read
\* committed Threshold.query.get reads the row as it is now and both bounds
\* become r's; under repeatable read it reads the row of r's snapshot, and the
\* UPDATE carries only the columns whose value r changed
save_user_thresholds(th, r, iso) ==
    IF iso = "repeatable_read" /\ r.snap # <<>>
    THEN Upsert(th, r.mood,
                IF r.iv.min # r.snap[1].min THEN r.iv.min ELSE th[r.mood].min,
                IF r.iv.max # r.snap[1].max THEN r.iv.max ELSE th[r.mood].max)
    ELSE Upsert(th, r.mood, r.iv.min, r.iv.max)

\* under repeatable read a request whose snapshot lacks the category INSERTs,
\* and the primary key exists if another request has created it since
InsertCollides(r) ==
    isolation = "repeatable_read" /\ r.snap = <<>> /\ r.mood \in DOMAIN thresholds

\* save_user_thresholds and its commit, which in app2.py also commits the
\* manual reading of the session; an IntegrityError is answered with 500
api_tune_save(w, now) ==
    /\ req[w].pc = "loaded"
    /\ IF InsertCollides(req[w])
       THEN /\ resp' = Response("tune-mood", 500, NoMood, NoRange)
            /\ req' = [req EXCEPT ![w] = IdleReq]
            /\ UNCHANGED <<readings, thresholds>>
       ELSE /\ thresholds' = save_user_thresholds(thresholds, req[w], isolation)
            /\ readings' = IF req[w].rev = 2
                           THEN Append(readings,
                                       SensorReading(now, req[w].t, req[w].mood, "manual"))
                           ELSE readings
            /\ req' = [req EXCEPT ![w].pc = "saved"]
            /\ UNCHANGED resp
    /\ UNCHANGED <<tuning_log, daemon, plays, cls, isolation, playback>>

\* the load or the commit of save_user_thresholds raises: rollback, 500
api_tune_save_fails(w) ==
    /\ req[w].pc = "loaded"
    /\ resp' = Response("tune-mood", 500, NoMood, NoRange)
    /\ req' = [req EXCEPT ![w] = IdleReq]
    /\ UNCHANGED <<readings, thresholds, tuning_log, daemon, plays, cls, isolation, playback>>

\* the tuning log row, its commit and the 200 response with new_range
api_tune_log(w) ==
    /\ req[w].pc = "saved"
    /\ tuning_log' = Append(tuning_log, TuningLog(req[w].t, req[w].mood, req[w].iv))
    /\ resp' = Response("tune-mood", 200, req[w].mood, req[w].iv)
    /\ req' = [req EXCEPT ![w] = IdleReq]
    /\ UNCHANGED <<readings, thresholds, daemon, plays, cls, isolation, playback>>

\* mutant: a failed commit of the tuning log row is answered as a success
api_tune_log_fails_silent(w) ==
    /\ req[w].pc = "saved"
    /\ resp' = Response("tune-mood", 200, req[w].mood, req[w].iv)
    /\ req' = [req EXCEPT ![w] = IdleReq]
    /\ UNCHANGED <<readings, thresholds, tuning_log, daemon, plays, cls, isolation, playback>>

\* the commit of the tuning log row raises: rollback, 500; what
\* save_user_thresholds committed stays
api_tune_log_fails(w) ==
    /\ req[w].pc = "saved"
    /\ resp' = Response("tune-mood", 500, NoMood, NoRange)
    /\ req' = [req EXCEPT ![w] = IdleReq]
    /\ UNCHANGED <<readings, thresholds, tuning_log, daemon, plays, cls, isolation, playback>>

(* ---------------------------- player daemon ---------------------------- *)
ProviderOutcomes == {"playing", "no_device", "raised"}

\* outcome of play_mood_playlist for a mood, given what the provider does
play_mood_playlist(mood, prov) ==
    IF mood \notin mood_playlists THEN "no_playlist" ELSE prov

\* the playlist of each mood
playlist_ids ==
    [m \in mood_playlists |->
        CASE m = "calm"      -> "37i9dQZF1DWZd79rJ6a7lp"
          [] m = "happy"     -> "37i9dQZF1DXdPec7aLTmlC"
          [] m = "energetic" -> "37i9dQZF1DX76Wlfdnj7AP"
          [] m = "stressed"  -> "37i9dQZF1DX3rxVfibe1L0"
          [] m = "anxious"   -> "37i9dQZF1DWZqd5JICZI0u"]

\* f"spotify:playlist:{playlist_id}", as the pair of its prefix and the id
playlist_uri(mood) == <<"spotify:playlist", playlist_ids[mood]>>

\* what the provider does during one call: the device list sp.devices()
\* returns, or that it raises, and whether sp.start_playback raises
DeviceIds == {"phone", "laptop", "speaker"}
DeviceLists ==
    {<<>>} \cup {<<a>> : a \in DeviceIds}
           \cup {<<a, b>> : a \in DeviceIds, b \in DeviceIds}
ProviderBehaviours ==
    [devices : DeviceLists, devices_raises : BOOLEAN, start_raises : BOOLEAN]

\* mutant: playback is requested on the last device of the list
start_playback_requests_last(sp, mood, b) ==
    IF ~sp \/ mood \notin mood_playlists \/ b.devices_raises \/ b.devices = <<>>
    THEN <<>>
    ELSE <<[device_id |-> b.devices[Len(b.devices)], context_uri |-> playlist_uri(mood)]>>

\* the start_playback requests that one call of play_mood_playlist sends
start_playback_requests(sp, mood, b) ==
    IF ~sp THEN <<>>
    ELSE IF mood \notin mood_playlists THEN <<>>
    ELSE IF b.devices_raises THEN <<>>
    ELSE IF b.devices = <<>> THEN <<>>
    ELSE <<[device_id |-> b.devices[1], context_uri |-> playlist_uri(mood)]>>

\* one call of play_mood_playlist by daemon d, with what it sent and returned
call_play_mood_playlist(d, mood, b) ==
    /\ playback' =
          [called |-> TRUE, sp |-> daemon[d].sp, mood |-> mood,
           devices |-> IF b.devices_raises THEN <<>> ELSE b.devices,
           requests |-> start_playback_requests(daemon[d].sp, mood, b),
           result |-> /\ start_playback_requests(daemon[d].sp, mood, b) # <<>>
                      /\ ~b.start_raises]
    /\ UNCHANGED <<readings, thresholds, tuning_log, daemon, plays, cls, web>>

\* the except pymysql.Error handler of check_for_new_mood_and_play: conn is
\* either still None or bound to a connection get_db has already closed, and
\* rollback() on a closed pymysql connection raises InterfaceError
on_db_error(connBound) == IF connBound THEN "crashed" ELSE "sleep"

\* mutant: the loop is entered whether or not Spotify is connected
run_daemon_anyway(d) ==
    /\ daemon[d].pc = "new"
    /\ daemon' = [daemon EXCEPT ![d].pc = "sleep"]
    /\ UNCHANGED <<readings, thresholds, tuning_log, plays, cls, web, playback>>

\* lines 176-186: return if not self.sp, else enter the while-True loop
run_daemon(d) ==
    /\ daemon[d].pc = "new"
    /\ daemon' = [daemon EXCEPT ![d].pc = IF daemon[d].sp THEN "sleep" ELSE "returned"]
    /\ UNCHANGED <<readings, thresholds, tuning_log, plays, cls, web, playback>>

\* lines 129-139: the SELECT of one tick
check_select(d) ==
    /\ daemon[d].pc = "sleep"
    /\ IF SelectOldestPending = {}
       THEN UNCHANGED daemon
       ELSE \E i \in SelectOldestPending :
              daemon' = [daemon EXCEPT ![d].pc = "selected", ![d].reading_id = i,
                                       ![d].mood = readings[i].user_mood]
    /\ UNCHANGED <<readings, thresholds, tuning_log, plays, cls, web, playback>>

\* pymysql.connect raises in the first with block: conn is still None
check_connect_fails(d) ==
    /\ daemon[d].pc = "sleep"
    /\ daemon' = [daemon EXCEPT ![d].pc = on_db_error(FALSE)]
    /\ UNCHANGED <<readings, thresholds, tuning_log, plays, cls, web, playback>>

\* the SELECT raises: conn is bound and closed when the handler runs
check_query_fails(d) ==
    /\ daemon[d].pc = "sleep"
    /\ daemon' = [daemon EXCEPT ![d].pc = on_db_error(TRUE)]
    /\ UNCHANGED <<readings, thresholds, tuning_log, plays, cls, web, playback>>

\* mutant: one tick plays every pending reading
check_play_all(d) ==
    /\ daemon[d].pc = "selected"
    /\ \E prov \in ProviderOutcomes :
          plays' = [i \in DOMAIN plays |->
                        IF i \in Pending \cup {daemon[d].reading_id}
                        THEN [count |-> plays[i].count + 1,
                              outcome |-> play_mood_playlist(daemon[d].mood, prov)]
                        ELSE plays[i]]
    /\ daemon' = [daemon EXCEPT ![d].pc = "played"]
    /\ UNCHANGED <<readings, thresholds, tuning_log, cls, web, playback>>

\* lines 142-153
check_play(d) ==
    /\ daemon[d].pc = "selected"
    /\ \E prov \in ProviderOutcomes :
          plays' = [plays EXCEPT ![daemon[d].reading_id] =
                        [count |-> @.count + 1,
                         outcome |-> play_mood_playlist(daemon[d].mood, prov)]]
    /\ daemon' = [daemon EXCEPT ![d].pc = "played"]
    /\ UNCHANGED <<readings, thresholds, tuning_log, cls, web, playback>>

\* mutant: the UPDATE has no WHERE clause
check_mark_all(d) ==
    /\ daemon[d].pc = "played"
    /\ readings' = [i \in DOMAIN readings |-> [readings[i] EXCEPT !.playlist_played = TRUE]]
    /\ daemon' = [daemon EXCEPT ![d].pc = "sleep", ![d].reading_id = 0, ![d].mood = NoMood]
    /\ UNCHANGED <<thresholds, tuning_log, plays, cls, web, playback>>

\* mutant: the UPDATE is never committed (autocommit is off)
check_mark_nocommit(d) ==
    /\ daemon[d].pc = "played"
    /\ daemon' = [daemon EXCEPT ![d].pc = "sleep", ![d].reading_id = 0, ![d].mood = NoMood]
    /\ UNCHANGED <<readings, thresholds, tuning_log, plays, cls, web, playback>>

\* mutant: the reading is marked only when playback started
check_mark_if_success(d) ==
    /\ daemon[d].pc = "played"
    /\ readings' = [readings EXCEPT ![daemon[d].reading_id].playlist_played =
                        @ \/ plays[daemon[d].reading_id].outcome = "playing"]
    /\ daemon' = [daemon EXCEPT ![d].pc = "sleep", ![d].reading_id = 0, ![d].mood = NoMood]
    /\ UNCHANGED <<thresholds, tuning_log, plays, cls, web, playback>>

\* mutant: the UPDATE flips the flag instead of setting it
check_mark_toggle(d) ==
    /\ daemon[d].pc = "played"
    /\ readings' = [readings EXCEPT ![daemon[d].reading_id].playlist_played = ~@]
    /\ daemon' = [daemon EXCEPT ![d].pc = "sleep", ![d].reading_id = 0, ![d].mood = NoMood]
    /\ UNCHANGED <<thresholds, tuning_log, plays, cls, web, playback>>

\* lines 155-163: UPDATE ... SET playlist_played = True WHERE id = %s; commit
check_mark(d) ==
    /\ daemon[d].pc = "played"
    /\ readings' = [readings EXCEPT ![daemon[d].reading_id].playlist_played = TRUE]
    /\ daemon' = [daemon EXCEPT ![d].pc = "sleep", ![d].reading_id = 0,
                                ![d].mood = NoMood]
    /\ UNCHANGED <<thresholds, tuning_log, plays, cls, web, playback>>

\* connecting for, executing or committing the UPDATE raises: conn is bound to
\* a closed connection in each case
check_mark_fails(d) ==
    /\ daemon[d].pc = "played"
    /\ daemon' = [daemon EXCEPT ![d].pc = on_db_error(TRUE)]
    /\ UNCHANGED <<readings, thresholds, tuning_log, plays, cls, web, playback>>

(* ---------------------------- specification ---------------------------- *)
WebNext ==
    \E t \in DispatchTemps, now \in TimeStamps :
        \/ \E um \in DeclaredMoods \cup {NoMood}, ord \in ScanOrders(DOMAIN thresholds) :
              receive_sensor_data(t, um, now, ord)
        \/ \E ord \in ScanOrders(DOMAIN thresholds) : receive_sensor_data2(t, now, ord)
        \/ \E m \in DeclaredMoods, hasTemp \in BOOLEAN : manual_mood_selection(m, hasTemp, t, now)
        \/ \E m \in DeclaredMoods : tune_mood(m, t)
        \/ \E m \in DeclaredMoods : tune_mood2(m, t, now)
        \/ \E id \in 1..MaxReadings : mark_playlist_played(id)

DaemonOk(d) ==
    \/ run_daemon(d)
    \/ check_select(d)
    \/ check_play(d)
    \/ check_mark(d)

DaemonFails(d) ==
    \/ check_connect_fails(d)
    \/ check_query_fails(d)
    \/ check_mark_fails(d)

Next ==
    \/ WebNext
    \/ \E d \in DAEMONS : DaemonOk(d)
    \/ \E d \in DAEMONS : DaemonFails(d)

Spec == Init /\ [][Next]_vars

\* daemon ticks alone, on the ledger of the ordering scenario
NextOrder ==
    \/ \E d \in DAEMONS : DaemonOk(d)
    \/ \E d \in DAEMONS : DaemonFails(d)

SpecOrder == InitOrder /\ [][NextOrder]_vars

\* classification against every table that seeding and tuning produce
NextClassify ==
    \/ \E t \in ClassifyTemps, ord \in ClassifyOrders(DOMAIN thresholds) : classify(t, ord)
    \/ \E m \in TuneMoods, t \in TuneTemps : tune_mood(m, t)
    \/ seed_default_thresholds

SpecClassify == InitClassify /\ [][NextClassify]_vars

\* the store is reachable (no database step raises) and every daemon that is
\* in its while-True loop keeps taking its next step
NextLive ==
    \/ WebNext
    \/ \E d \in DAEMONS : DaemonOk(d)

SpecLive == Init /\ [][NextLive]_vars /\ \A d \in DAEMONS : WF_vars(DaemonOk(d))

\* the store is seeded, no request is in flight, and the service runs on
\* either kind of store
InitWeb ==
    /\ readings = <<>>
    /\ thresholds = DEFAULT_THRESHOLDS
    /\ tuning_log = <<>>
    /\ daemon = [d \in DAEMONS |-> NewDaemon(FALSE)]
    /\ plays = NoPlays
    /\ cls = NoCall
    /\ playback = NoPlayback
    /\ req = [w \in WORKERS |-> IdleReq]
    /\ resp = NoResp
    /\ isolation \in Isolations

\* the steps of the /api/sensor-data requests that worker w handles
IngestStep(w) ==
    \/ \E t \in IngestTemps \cup {NoTemp}, um \in DeclaredMoods \cup {NoMood},
          now \in WebTimes, ord \in ScanOrders(DOMAIN thresholds) :
            \/ api_sensor_data(w, t, um, now, ord)
            \/ api_sensor_data2(w, t, um, now, ord)
    \/ api_sensor_data_fails(w)

\* the steps of the /api/tune-mood requests that worker w handles
TuneStep(w) ==
    \/ \E rev \in {1, 2}, m \in WebMoods \cup {NoMood}, t \in WebTemps \cup {NoTemp} :
            api_tune_load(w, rev, m, t)
    \/ \E now \in WebTimes : api_tune_save(w, now)
    \/ api_tune_save_fails(w)
    \/ api_tune_log(w)
    \/ api_tune_log_fails(w)

\* requests handled one after another
NextSeq == IngestStep(1) \/ TuneStep(1)

SpecSeq == InitWeb /\ [][NextSeq]_vars

\* tune requests handled by workers that run at the same time
NextTune == \E w \in WORKERS : TuneStep(w)

SpecTune == InitWeb /\ [][NextTune]_vars

\* tune requests of one worker, and between their steps the ingestion by
\* another worker of the temperatures that are tuned
NextFresh ==
    \/ TuneStep(1)
    \/ \E t \in WebTemps, now \in WebTimes, ord \in ScanOrders(DOMAIN thresholds) :
          \/ api_sensor_data(2, t, NoMood, now, ord)
          \/ api_sensor_data2(2, t, NoMood, now, ord)

SpecFresh == InitWeb /\ [][NextFresh]_vars

\* calls of play_mood_playlist for every mood, whatever the provider does
NextPlay ==
    \E d \in DAEMONS, m \in mood_playlists \cup DeclaredMoods, b \in ProviderBehaviours :
        call_play_mood_playlist(d, m, b)

SpecPlay == Init /\ [][NextPlay]_vars

(* ======================================================================= *)
(* Claims                                                                  *)
(* ======================================================================= *)
Played(i) == i \in DOMAIN readings /\ readings[i].playlist_played

\* a daemon that never entered its polling loop
NeverTicked(d) == daemon[d].pc \in {"new", "returned"}

\* C1: with a single daemon instance (every other daemon never entered its
\* loop), play_mood_playlist is invoked at most once for every reading,
\* whatever the playback outcomes and whenever readings are ingested.
C1_SingleDaemonPlaysOnce ==
    \A d \in DAEMONS :
        (\A e \in DAEMONS \ {d} : NeverTicked(e)) =>
            \A i \in ReadingIds : plays[i].count <= 1

\* C1 witness: a single daemon has finished a tick on a reading whose playback
\* raised, and is inside a later tick on another reading.
C1_Witness ==
    /\ NeverTicked(2)
    /\ daemon[1].pc = "selected"
    /\ \E i \in DOMAIN readings :
          /\ i # daemon[1].reading_id
          /\ Played(i)
          /\ plays[i].count = 1
          /\ plays[i].outcome = "raised"

\* C2 (as claimed): with two daemons racing on the same store, at most one
\* playback invocation happens for any reading.
C2_AtMostOnePlayPerReading ==
    \A i \in ReadingIds : plays[i].count <= 1

\* C3: a reading is created with playlist_played = False, and once the flag is
\* True no step (ingestion, tuning, manual mood, mark-played, daemon tick)
\* sets it back to False.
C3_FlagNeverReverts ==
    [][ /\ \A i \in DOMAIN readings :
              i \in DOMAIN readings' /\ (readings[i].playlist_played => readings'[i].playlist_played)
        /\ \A i \in DOMAIN readings' \ DOMAIN readings : ~readings'[i].playlist_played ]_vars

\* C3 witness: the newest reading was played as a classified mood, then
\* rewritten by /api/manual-mood after a tune, and is still marked played.
C3_Witness ==
    /\ Len(readings) = 2
    /\ readings[2].playlist_played
    /\ plays[2].count = 1
    /\ plays[2].outcome = "playing"
    /\ readings[2].user_mood = "furious"
    /\ readings[2].mood_source = "manual"
    /\ tuning_log # <<>>

\* C4: a tick that selected a reading and returns normally leaves that reading
\* with playlist_played = True, whatever play_mood_playlist came to (playing,
\* raised, no device, no playlist for the mood).
C4_TickMarksSelected ==
    [][ \A d \in DAEMONS :
            (daemon[d].pc = "played" /\ daemon'[d].pc = "sleep") =>
                readings'[daemon[d].reading_id].playlist_played ]_vars

\* C4 witness: no tick is in progress, and a reading whose mood has no playlist
\* and a reading whose playback found no device were each played once and are
\* marked.
C4_Witness ==
    /\ \A d \in DAEMONS : daemon[d].pc \in {"sleep", "new", "returned"}
    /\ \E i, j \in DOMAIN readings :
          /\ Played(i) /\ plays[i].count = 1 /\ plays[i].outcome = "no_playlist"
          /\ Played(j) /\ plays[j].count = 1 /\ plays[j].outcome = "no_device"

C6_SelectsOldestThenLowestId ==
    [][ \A d \in DAEMONS :
            (daemon[d].pc = "sleep" /\ daemon'[d].pc = "selected") =>
                LET i == daemon'[d].reading_id
                IN /\ i \in Pending
                   /\ \A j \in Pending :
                         \/ readings[i].timestamp < readings[j].timestamp
                         \/ (readings[i].timestamp = readings[j].timestamp /\ i <= j) ]_vars

C8_NoExceptionReachesLoop ==
    \A d \in DAEMONS : daemon[d].pc # "crashed"

\* C9: marking a reading that is already played (by a daemon's UPDATE or by
\* /api/mark-played) leaves every row as it was, with the flag still True,
\* raises nothing in the daemon, invokes no playback and leaves the reading
\* out of the pending set.
C9_MarkIdempotent ==
    [][ \A i \in DOMAIN readings :
            ( /\ readings[i].playlist_played
              /\ \/ mark_playlist_played(i)
                 \/ \E d \in DAEMONS : daemon[d].reading_id = i /\ check_mark(d) )
            => /\ readings' = readings
               /\ readings'[i].playlist_played
               /\ plays' = plays
               /\ \A d \in DAEMONS : daemon'[d].pc = "crashed" => daemon[d].pc = "crashed" ]_vars

\* C9 witness: both daemons attempted the same reading and both completed
\* their mark step on it; the reading is played.
C9_Witness ==
    /\ \A d \in DAEMONS : daemon[d].pc = "sleep"
    /\ \E i \in DOMAIN readings : Played(i) /\ plays[i].count = 2

\* C10: determine_mood_from_temperature(t) returns the mood of the first row,
\* in the order the rows were loaded, whose interval contains t with both
\* bounds inclusive, and 'calm' when no row contains t; it never returns none.
C10_FirstMatchOrCalm ==
    cls.t # 0 =>
        LET M == {i \in 1..Len(cls.rows) :
                     cls.rows[i].min <= cls.t /\ cls.t <= cls.rows[i].max}
        IN /\ cls.mood # NoMood
           /\ IF M = {} THEN cls.mood = "calm"
              ELSE \E i \in M : (\A j \in M : i <= j) /\ cls.mood = cls.rows[i].mood

\* C10 witness: with the five default rows, 37.05 lies in the gap between
\* 'happy' and 'energetic' and is classified 'calm'.
C10_Witness ==
    /\ cls.t = 3705
    /\ Len(cls.rows) = 5
    /\ \A i \in 1..5 : ~(cls.rows[i].min <= 3705 /\ 3705 <= cls.rows[i].max)
    /\ cls.mood = "calm"

\* C10, overlap case reached: two loaded rows contain t and the result is the
\* mood of the earlier one, which is not 'calm'.
C10_WitnessOverlap ==
    \E i, j \in 1..Len(cls.rows) :
        /\ i < j
        /\ cls.rows[i].min <= cls.t /\ cls.t <= cls.rows[i].max
        /\ cls.rows[j].min <= cls.t /\ cls.t <= cls.rows[j].max
        /\ cls.mood = cls.rows[i].mood
        /\ cls.mood # "calm"

\* the last row of the tuning log: the latest successful tune
LastTune == tuning_log[Len(tuning_log)]

\* the last standalone classification ran against the table as it is now
ClassifiedCurrentTable ==
    cls.rows \in {load_user_thresholds(thresholds, o) : o \in ClassifyOrders(DOMAIN thresholds)}

\* C11: after a successful tune(c, t), a classification of t against the
\* table the tune left returns c, from every reachable table and for every
\* order in which the store returns the rows.
C11_ClassifyReturnsTuned ==
    (/\ tuning_log # <<>>
     /\ cls.t = LastTune.temperature
     /\ ClassifiedCurrentTable)
        => cls.mood = LastTune.reported_mood

\* a step that completes a tune request successfully: its log row is committed
TuneSucceeds == Len(tuning_log') = Len(tuning_log) + 1

\* the log row of the request that the step completes
TunedRow == tuning_log'[Len(tuning_log')]

\* C12: when a tune(c, t) that ran alone completes, the stored interval of c
\* contains t strictly: min_temp < t < max_temp.
C12_TunedIntervalContainsT ==
    [][TuneSucceeds =>
          /\ TunedRow.reported_mood \in DOMAIN thresholds'
          /\ thresholds'[TunedRow.reported_mood].min < TunedRow.temperature
          /\ TunedRow.temperature < thresholds'[TunedRow.reported_mood].max]_vars

\* C12 witness: "happy" was tuned at 37.3 and then at 39.5, each request
\* alone, and its stored interval [36.6, 39.6] has both inside.
C12_Witness ==
    /\ Len(tuning_log) = 2
    /\ tuning_log[1].reported_mood = "happy" /\ tuning_log[1].temperature = 3730
    /\ tuning_log[2].reported_mood = "happy" /\ tuning_log[2].temperature = 3950
    /\ thresholds["happy"] = [min |-> 3660, max |-> 3960]

\* C13: in every reachable state, after seeding and any tune requests,
\* interleaved or not, every Threshold row has min_temp <= max_temp.
C13_MinAtMostMax ==
    \A m \in DOMAIN thresholds : thresholds[m].min <= thresholds[m].max

\* C13 witness: two requests for the new category "furious" at 37.3 and 39.5
\* interleaved, both loaded before either saved, and both have committed.
C13_Witness ==
    /\ \A w \in WORKERS : req[w].pc = "saved" /\ req[w].mood = "furious" /\ req[w].snap = <<>>
    /\ req[1].t # req[2].t
    /\ "furious" \in DOMAIN thresholds

\* the step in which worker w commits save_user_thresholds
Saves(w) == req[w].pc = "loaded" /\ req'[w].pc = "saved"

\* C14: for a category that exists, every tune executed one after another
\* leaves new min <= old min and new max >= old max.
C14_SequentialTunesWiden ==
    [][\A w \in WORKERS :
          (Saves(w) /\ req[w].mood \in DOMAIN thresholds) =>
              /\ thresholds'[req[w].mood].min <= thresholds[req[w].mood].min
              /\ thresholds'[req[w].mood].max >= thresholds[req[w].mood].max]_vars

\* C14 witness: the new category "furious" was created at 39.5, [39.3, 39.7],
\* and a later tune at 37.3 has widened it to [37.2, 39.7].
C14_Witness ==
    /\ Len(tuning_log) = 2
    /\ tuning_log[1].reported_mood = "furious" /\ tuning_log[1].temperature = 3950
    /\ tuning_log[2].reported_mood = "furious" /\ tuning_log[2].temperature = 3730
    /\ thresholds["furious"] = [min |-> 3720, max |-> 3970]

\* C15: when tune requests for the same existing category interleave, each
\* loading the snapshot and then each saving, the committed interval of every
\* category only ever widens: on every step min_temp does not increase and
\* max_temp does not decrease.
C15_InterleavedTunesWiden ==
    [][\A m \in DOMAIN thresholds :
          /\ thresholds'[m].min <= thresholds[m].min
          /\ thresholds'[m].max >= thresholds[m].max]_vars

Min(a, b) == IF a <= b THEN a ELSE b
Max(a, b) == IF a >= b THEN a ELSE b

\* the step in which worker w answers its tune request with 200
Answers(w) == req[w].pc = "saved" /\ req'[w].pc = "idle" /\ resp'.status = 200

\* C16: tune(c, t) stores exactly [min(L, t - 0.1), max(H, t + 0.1)] when c
\* exists with interval [L, H] and exactly [t - 0.2, t + 0.2] when c is
\* absent, and the new_range of its response equals the stored interval.
C16_ExactInterval ==
    [][\A w \in WORKERS :
          /\ Saves(w) =>
                LET c == req[w].mood
                    t == req[w].t
                IN thresholds'[c] =
                      IF c \in DOMAIN thresholds
                      THEN [min |-> Min(thresholds[c].min, t - 10),
                            max |-> Max(thresholds[c].max, t + 10)]
                      ELSE [min |-> t - 20, max |-> t + 20]
          /\ Answers(w) =>
                /\ resp'.mood = req[w].mood
                /\ [min |-> resp'.min, max |-> resp'.max] = thresholds'[req[w].mood]]_vars

\* C16 witness: "happy" = [36.6, 37.0] tuned at 37.3 is stored as
\* [36.6, 37.4], and the response carries that range.
C16_Witness ==
    /\ tuning_log = <<TuningLog(3730, "happy", [min |-> 3660, max |-> 3740])>>
    /\ thresholds["happy"] = [min |-> 3660, max |-> 3740]
    /\ resp = Response("tune-mood", 200, "happy", [min |-> 3660, max |-> 3740])

\* C16 witness: the absent category "furious" tuned at 39.5 is stored as
\* [39.3, 39.7].
C16_WitnessAbsent ==
    /\ resp = Response("tune-mood", 200, "furious", [min |-> 3930, max |-> 3970])
    /\ thresholds["furious"] = [min |-> 3930, max |-> 3970]
    /\ Len(tuning_log) = 1

\* C17: every successful /api/tune-mood request with mood m and temperature
\* t, in either revision, upserts the threshold of m and persists one new
\* reading with user_mood = m, a manual mood_source and playlist_played =
\* FALSE; with requests handled one after another that reading is the latest
\* of the ledger when the request is answered.
C17_TuneAlsoPersistsReading ==
    [][\A w \in WORKERS :
          Answers(w) =>
              /\ req[w].mood \in DOMAIN thresholds'
              /\ readings' # <<>>
              /\ readings'[Len(readings')].user_mood = req[w].mood
              /\ readings'[Len(readings')].temperature = req[w].t
              /\ readings'[Len(readings')].mood_source = "manual"
              /\ ~readings'[Len(readings')].playlist_played]_vars

\* categories whose stored interval contains t
Matching(t) == {m \in DOMAIN thresholds : thresholds[m].min <= t /\ t <= thresholds[m].max}

\* a step that answers a /api/sensor-data request with success
IngestAnswered ==
    /\ resp'.route = "sensor-data"
    /\ resp'.status \in {200, 201}
    /\ req' = req

\* a /api/sensor-data request of either revision with temperature t and
\* declared mood um (NoMood for none)
SensorDataRequest(t, um) ==
    \E w \in WORKERS, now \in WebTimes, ord \in ScanOrders(DOMAIN thresholds) :
        \/ api_sensor_data(w, t, um, now, ord)
        \/ api_sensor_data2(w, t, um, now, ord)

\* C18: a /api/sensor-data request with a temperature and no declared mood
\* persists exactly one new reading, whose user_mood is the classification of
\* the temperature under the thresholds of that moment (a category whose
\* interval contains it, "calm" if there is none), with mood_source
\* 'threshold' and playlist_played = FALSE.
C18_IngestClassifies ==
    [][\A t \in IngestTemps :
          (IngestAnswered /\ SensorDataRequest(t, NoMood)) =>
              /\ Len(readings') = Len(readings) + 1
              /\ \A i \in DOMAIN readings : readings'[i] = readings[i]
              /\ LET r == readings'[Len(readings')]
                 IN /\ r.temperature = t
                    /\ r.user_mood \in (IF Matching(t) = {} THEN {"calm"} ELSE Matching(t))
                    /\ r.mood_source = "threshold"
                    /\ r.playlist_played = FALSE]_vars

\* C18 witness: with the default thresholds, 36.8 was ingested with no
\* declared mood and stored as "happy", derived, not played.
C18_Witness ==
    /\ thresholds = DEFAULT_THRESHOLDS
    /\ resp = Response("sensor-data", 200, "happy", NoRange)
    /\ readings = <<[timestamp |-> 0, temperature |-> 3680, user_mood |-> "happy",
                     mood_source |-> "threshold", playlist_played |-> FALSE]>>

\* C19: a /api/sensor-data request with a temperature and a non-empty
\* declared mood persists a reading whose user_mood is the declared mood and
\* whose mood_source is manual, in either revision.
C19_IngestKeepsDeclaredMood ==
    [][\A t \in IngestTemps, um \in DeclaredMoods :
          (IngestAnswered /\ SensorDataRequest(t, um)) =>
              /\ Len(readings') = Len(readings) + 1
              /\ readings'[Len(readings')].user_mood = um
              /\ readings'[Len(readings')].mood_source = "manual"]_vars

\* a /api/sensor-data request of either revision whose body has no temperature
MalformedSensorData ==
    \E w \in WORKERS, um \in DeclaredMoods \cup {NoMood}, now \in WebTimes :
        \/ api_sensor_data(w, NoTemp, um, now, <<>>)
        \/ api_sensor_data2(w, NoTemp, um, now, <<>>)

\* a /api/tune-mood request of either revision whose body lacks the mood or
\* the temperature
MalformedTune ==
    \E w \in WORKERS, rev \in {1, 2}, m \in WebMoods \cup {NoMood}, t \in WebTemps \cup {NoTemp} :
        /\ m = NoMood \/ t = NoTemp
        /\ api_tune_load(w, rev, m, t)

\* C20: /api/sensor-data without a temperature is answered 400 and creates no
\* reading; /api/tune-mood without a mood or without a temperature is
\* answered 400, changes no threshold, adds no tuning log row and no reading,
\* and leaves nothing in flight that could.
C20_MalformedRejected ==
    [][(MalformedSensorData \/ MalformedTune) =>
          /\ resp'.status = 400
          /\ UNCHANGED <<readings, thresholds, tuning_log, req>>]_vars

\* C20 witness: after a tune and an ingestion have been stored, a tune request
\* without temperature was answered 400.
C20_Witness ==
    /\ resp = Response("tune-mood", 400, NoMood, NoRange)
    /\ Len(tuning_log) = 1
    /\ Len(readings) = 1
    /\ thresholds # DEFAULT_THRESHOLDS

\* C20 witness: an ingestion without temperature was answered 400 on a
\* non-empty ledger.
C20_WitnessIngest ==
    /\ resp = Response("sensor-data", 400, NoMood, NoRange)
    /\ Len(readings) = 1

\* C21: seed_default_thresholds inserts only the default categories that are
\* absent and leaves every row that exists as it is, a widened default
\* included; seeding what it has seeded changes nothing; and no step of any
\* operation removes a Threshold row.
C21_SeedingIdempotent ==
    [][/\ DOMAIN thresholds \subseteq DOMAIN thresholds'
       /\ seed_default_thresholds =>
             /\ \A m \in DOMAIN thresholds : thresholds'[m] = thresholds[m]
             /\ DOMAIN thresholds' = DOMAIN thresholds \cup DOMAIN DEFAULT_THRESHOLDS
             /\ \A m \in DOMAIN thresholds' \ DOMAIN thresholds :
                    thresholds'[m] = DEFAULT_THRESHOLDS[m]
             /\ seed_rows(thresholds') = thresholds']_vars

\* C21 witness: "happy" was created by a tune at 37.3 on an unseeded store,
\* [37.1, 37.5], and a later seeding has added the other defaults around it.
C21_Witness ==
    /\ DOMAIN thresholds = DOMAIN DEFAULT_THRESHOLDS
    /\ thresholds["happy"] = [min |-> 3710, max |-> 3750]
    /\ thresholds["calm"] = DEFAULT_THRESHOLDS["calm"]

\* C22: the ledger is append-only with one mutable flag: no step of any
\* operation removes a reading or changes a field of an existing reading
\* other than playlist_played.
C22_LedgerAppendOnly ==
    [][/\ Len(readings') >= Len(readings)
       /\ \A i \in DOMAIN readings :
             [readings'[i] EXCEPT !.playlist_played = readings[i].playlist_played]
                 = readings[i]]_vars

\* category m has a tuning log row that records interval iv for it
Logged(m, iv) ==
    \E i \in DOMAIN tuning_log :
        /\ tuning_log[i].reported_mood = m
        /\ tuning_log[i].min_temp = iv.min
        /\ tuning_log[i].max_temp = iv.max

\* C23: the threshold upsert and the tuning log row of a tune are one unit of
\* work: once no request is in flight, also after a failed commit, every
\* category whose interval is not the seeded one has a tuning log row for that
\* interval, and every tuning log row is about a category that is stored.
C23_TuneIsOneUnit ==
    InFlight = {} =>
        /\ \A m \in DOMAIN thresholds :
              (m \notin DOMAIN DEFAULT_THRESHOLDS \/ thresholds[m] # DEFAULT_THRESHOLDS[m])
                  => Logged(m, thresholds[m])
        /\ \A i \in DOMAIN tuning_log : tuning_log[i].reported_mood \in DOMAIN thresholds

\* the step in which worker w finishes a tune request that had passed the 400
\* check, by answering it
Finishes(w) == req[w].pc # "idle" /\ req'[w].pc = "idle"

\* C24: /api/tune-mood answers success only when the threshold upsert and the
\* tuning log row are both committed; a request that fails at either commit
\* is answered 500 and is not answered as a success.
C24_NoSilentPartialWrite ==
    [][\A w \in WORKERS :
          Finishes(w) =>
              /\ resp'.route = "tune-mood"
              /\ IF resp'.status = 200
                 THEN /\ req[w].mood \in DOMAIN thresholds
                      /\ thresholds[req[w].mood] = req[w].iv
                      /\ tuning_log' = Append(tuning_log,
                                              [temperature |-> req[w].t,
                                               reported_mood |-> req[w].mood,
                                               min_temp |-> req[w].iv.min,
                                               max_temp |-> req[w].iv.max])
                 ELSE /\ resp'.status = 500
                      /\ tuning_log' = tuning_log]_vars

\* C24 witness: the commit of the tuning log row failed after the threshold of
\* "happy" was committed, and the caller was answered 500.
C24_Witness ==
    /\ resp = Response("tune-mood", 500, NoMood, NoRange)
    /\ InFlight = {}
    /\ thresholds["happy"] = [min |-> 3660, max |-> 3740]
    /\ tuning_log = <<>>

\* a step that answers a /api/sensor-data request
IngestResponds == resp'.route = "sensor-data" /\ req' = req

\* C25: a /api/sensor-data request during which the store fails is answered
\* 500 and leaves no reading behind; a reading is persisted only by a request
\* that is answered as a success, and nothing else changes either way.
C25_IngestFailsVisibly ==
    [][IngestResponds =>
          /\ resp'.status \in {200, 201, 400, 500}
          /\ resp'.status \in {400, 500} => readings' = readings
          /\ resp'.status \in {200, 201} => Len(readings') = Len(readings) + 1
          /\ UNCHANGED <<thresholds, tuning_log>>]_vars

\* C25 witness: with one reading stored, a later ingestion hit a store
\* failure and was answered 500; the ledger still holds that one reading.
C25_Witness ==
    /\ resp = Response("sensor-data", 500, NoMood, NoRange)
    /\ Len(readings) = 1
    /\ InFlight = {}

\* worker w commits its save while another worker has a tune for a different
\* category in flight, and nothing has touched w's category since w loaded it
SavesBesideOther(w) ==
    /\ Saves(w)
    /\ \E v \in WORKERS \ {w} : req[v].pc # "idle" /\ req[v].mood # req[w].mood
    /\ req[w].snap = IF req[w].mood \in DOMAIN thresholds
                     THEN <<thresholds[req[w].mood]>> ELSE <<>>

\* C26: concurrent tunes of two different categories do not interfere: the
\* save of each leaves its category with exactly the interval that the tune
\* gives when it runs alone on the table as it is, and changes no other
\* category, in every interleaving.
C26_DifferentCategoriesIndependent ==
    [][\A w \in WORKERS :
          SavesBesideOther(w) =>
              LET c == req[w].mood
                  t == req[w].t
              IN /\ DOMAIN thresholds' = DOMAIN thresholds \cup {c}
                 /\ \A m \in DOMAIN thresholds \ {c} : thresholds'[m] = thresholds[m]
                 /\ thresholds'[c] =
                        IF c \in DOMAIN thresholds
                        THEN [min |-> Min(thresholds[c].min, t - MarginWiden),
                              max |-> Max(thresholds[c].max, t + MarginWiden)]
                        ELSE [min |-> t - MarginNew, max |-> t + MarginNew]]_vars

\* C26 witness: a tune of "happy" at 37.3 and a tune of "furious" at 39.5 both
\* loaded the seeded table before either saved; both have saved, and the table
\* holds happy = [36.6, 37.4] and furious = [39.3, 39.7] beside the untouched
\* defaults.
C26_Witness ==
    /\ \A w \in WORKERS : req[w].pc = "saved"
    /\ \E w \in WORKERS : req[w].mood = "happy" /\ req[w].t = 3730 /\ req[w].snap # <<>>
    /\ \E w \in WORKERS : req[w].mood = "furious" /\ req[w].t = 3950 /\ req[w].snap = <<>>
    /\ thresholds = Upsert(Upsert(DEFAULT_THRESHOLDS, "happy", 3660, 3740),
                           "furious", 3930, 3970)

\* daemon d moves from one position of its loop to another
Moves(d, from, to) == daemon[d].pc = from /\ daemon'[d].pc = to

\* readings for which play_mood_playlist is called in the step
PlayedInStep == {i \in DOMAIN plays : plays'[i] # plays[i]}

\* readings whose playlist_played flag the step changes
MarkedInStep ==
    {i \in DOMAIN readings : readings'[i].playlist_played # readings[i].playlist_played}

\* C27: a tick handles at most one reading: it is one SELECT, then at most
\* one call of play_mood_playlist and one UPDATE, both for the reading the
\* SELECT returned, however many are pending; a tick that finds nothing
\* pending plays nothing and writes nothing; a daemon starts a tick only from
\* its sleep, never inside another tick.
C27_OneReadingPerTick ==
    [][/\ \A d \in DAEMONS :
             /\ daemon'[d].pc = "selected" => daemon[d].pc \in {"sleep", "selected"}
             /\ daemon'[d].pc = "played" => daemon[d].pc \in {"selected", "played"}
             /\ (daemon[d].pc = "sleep" /\ Pending = {}) => daemon'[d].pc # "selected"
             /\ daemon[d].pc \in {"selected", "played"} =>
                    \/ daemon'[d].reading_id = daemon[d].reading_id
                    \/ daemon'[d].pc \in {"sleep", "crashed"}
       /\ Cardinality(PlayedInStep) <= 1
       /\ \A i \in PlayedInStep :
             /\ plays'[i].count = plays[i].count + 1
             /\ \E d \in DAEMONS : Moves(d, "selected", "played") /\ daemon[d].reading_id = i
       /\ Cardinality(MarkedInStep) <= 1
       /\ \A i \in MarkedInStep :
             \E d \in DAEMONS : Moves(d, "played", "sleep") /\ daemon[d].reading_id = i]_vars

\* C27 witness: with three readings pending, a single daemon has finished one
\* tick: reading 1 was played once and marked, readings 2 and 3 are untouched.
C27_Witness ==
    /\ NeverTicked(2)
    /\ daemon[1].pc = "sleep"
    /\ Len(readings) = 3
    /\ Played(1) /\ plays[1].count = 1
    /\ \A i \in {2, 3} : ~Played(i) /\ plays[i].count = 0

\* C27 witness: nothing is pending and a daemon is in its sleep, so its next
\* tick finds nothing.
C27_WitnessIdle ==
    /\ Len(readings) = 3
    /\ Pending = {}
    /\ daemon[1].pc = "sleep"
    /\ \A i \in 1..3 : plays[i].count = 1

\* C28: a step of a daemon tick changes nothing in the store except the
\* playlist_played flag of the reading the tick selected: every other field
\* of that reading, every other reading, the thresholds and the tuning log
\* stay as they are, and no reading is created or removed.
C28_TickFrame ==
    [][daemon' # daemon =>
          /\ thresholds' = thresholds
          /\ tuning_log' = tuning_log
          /\ DOMAIN readings' = DOMAIN readings
          /\ \A i \in DOMAIN readings :
                \/ readings'[i] = readings[i]
                \/ /\ \E d \in DAEMONS : Moves(d, "played", "sleep") /\ daemon[d].reading_id = i
                   /\ readings'[i] = [readings[i] EXCEPT !.playlist_played = TRUE]]_vars

\* C28 witness: a daemon has marked reading 1 while reading 2 is pending and
\* a tune has been stored; reading 1 still carries the mood, source and
\* temperature it was ingested with.
C28_Witness ==
    /\ Len(readings) = 2
    /\ Played(1) /\ ~Played(2)
    /\ plays[1].count = 1 /\ plays[2].count = 0
    /\ readings[1].user_mood = "happy" /\ readings[1].mood_source = "threshold"
    /\ readings[1].temperature = 3680
    /\ tuning_log # <<>>
    /\ \A d \in DAEMONS : daemon[d].pc \in {"new", "returned", "sleep"}

\* C29: the tuning log is append-only: no step changes or removes a row;
\* a step adds at most one row, and only the step that answers a tune with
\* success adds one, holding the reported mood, the temperature and the
\* interval that the request wrote to the thresholds table; a rejected tune
\* adds none.
C29_TuningLogAppendOnly ==
    [][/\ Len(tuning_log') \in {Len(tuning_log), Len(tuning_log) + 1}
       /\ \A i \in DOMAIN tuning_log : tuning_log'[i] = tuning_log[i]
       /\ TuneSucceeds <=> \E w \in WORKERS : Answers(w)
       /\ \A w \in WORKERS :
             Answers(w) =>
                 TunedRow = [temperature |-> req[w].t,
                             reported_mood |-> req[w].mood,
                             min_temp |-> thresholds'[req[w].mood].min,
                             max_temp |-> thresholds'[req[w].mood].max]
       /\ tuning_log' # tuning_log => ~MalformedTune]_vars

\* C29 witness: two tunes were answered with success, "happy" at 39.5 and
\* then the new "furious" at 37.3, and the log holds their two rows in that
\* order with the intervals that are stored.
C29_Witness ==
    /\ tuning_log = <<TuningLog(3950, "happy", [min |-> 3660, max |-> 3960]),
                      TuningLog(3730, "furious", [min |-> 3710, max |-> 3750])>>
    /\ thresholds["happy"] = [min |-> 3660, max |-> 3960]
    /\ thresholds["furious"] = [min |-> 3710, max |-> 3750]

\* C30: when the provider returns at least one device and the mood has a
\* playlist, play_mood_playlist sends exactly one start_playback request, for
\* the playlist mapped to that mood, on the first device of the list; when
\* the list is empty it sends none.
C30_PlaysOnFirstDevice ==
    playback.called =>
        /\ (playback.sp /\ playback.mood \in DOMAIN playlist_ids /\ playback.devices # <<>>) =>
              /\ Len(playback.requests) = 1
              /\ playback.requests[1].device_id = Head(playback.devices)
              /\ playback.requests[1].context_uri =
                     <<"spotify:playlist", playlist_ids[playback.mood]>>
        /\ playback.devices = <<>> => playback.requests = <<>> /\ ~playback.result

\* C30 witness: the provider listed the laptop before the phone, the mood was
\* "happy", and the one request went to the laptop with the playlist of "happy".
C30_Witness ==
    /\ playback.called /\ playback.result
    /\ playback.mood = "happy"
    /\ playback.devices = <<"laptop", "phone">>
    /\ playback.requests = <<[device_id |-> "laptop",
                              context_uri |-> <<"spotify:playlist", "37i9dQZF1DXdPec7aLTmlC">>]>>

\* C30 witness: the provider listed no device and nothing was requested.
C30_WitnessNoDevice ==
    /\ playback.called /\ playback.sp
    /\ playback.mood = "calm"
    /\ playback.devices = <<>>
    /\ playback.requests = <<>>

\* C31: an ingest classifies against the thresholds committed at that moment,
\* so a reading ingested after a tune committed carries a category whose
\* tuned interval contains its temperature ("calm" if none does), and a step
\* that changes the thresholds leaves the mood of every existing reading as
\* it was recorded.
C31_IngestUsesCommittedThresholds ==
    [][/\ (/\ IngestAnswered
           /\ Len(readings') = Len(readings) + 1
           /\ readings'[Len(readings')].mood_source = "threshold") =>
              LET r == readings'[Len(readings')]
              IN r.user_mood \in (IF Matching(r.temperature) = {} THEN {DefaultMood}
                                  ELSE Matching(r.temperature))
       /\ thresholds' # thresholds =>
              \A i \in DOMAIN readings :
                  /\ i \in DOMAIN readings'
                  /\ readings'[i].user_mood = readings[i].user_mood]_vars

\* C31 witness: 39.5 was ingested and recorded as "calm"; then "furious" was
\* tuned at 39.5 and 39.5 was ingested again, recorded as "furious"; the first
\* reading still says "calm".
C31_Witness ==
    /\ "furious" \in DOMAIN thresholds
    /\ tuning_log # <<>>
    /\ Len(readings) = 2
    /\ readings[1].temperature = 3950 /\ readings[1].user_mood = "calm"
    /\ readings[1].mood_source = "threshold"
    /\ readings[2].temperature = 3950 /\ readings[2].user_mood = "furious"
    /\ readings[2].mood_source = "threshold"

\* C32 (as claimed): a reading whose playlist_played is True has had
\* play_mood_playlist called for it by a daemon, /api/mark-played being
\* reachable.
C32_PlayedOnlyAfterAttempt ==
    \A i \in DOMAIN readings : readings[i].playlist_played => plays[i].count >= 1

\* C33 (as claimed): when connecting for, executing or committing the mark
\* UPDATE raises, the tick absorbs the exception: the reading stays pending
\* and the daemon goes on to its next tick.
C33_MarkFailureAbsorbed ==
    [][\A d \in DAEMONS :
          (/\ daemon[d].pc = "played"
           /\ daemon'[d].pc # "played"
           /\ readings' = readings) => daemon'[d].pc = "sleep"]_vars

\* C34: a daemon whose Spotify client is None (setup_spotify returned None)
\* returns from run_daemon without a tick: it never selects a reading, its
\* steps leave every reading and every playback count as they were, and while
\* no daemon has a client no playback is ever attempted.
C34_NoClientNoTick ==
    /\ []((\A d \in DAEMONS : ~daemon[d].sp) => plays = NoPlays)
    /\ [][\A d \in DAEMONS :
             ~daemon[d].sp =>
                /\ daemon'[d].pc \in {"new", "returned"}
                /\ daemon'[d].reading_id = 0
                /\ daemon'[d].mood = NoMood
                /\ daemon'[d] # daemon[d] => (readings' = readings /\ plays' = plays)]_vars

\* C34 witness: every daemon started without a client and has returned, and
\* the two readings ingested since are both still pending and unplayed.
C34_Witness ==
    /\ \A d \in DAEMONS : ~daemon[d].sp /\ daemon[d].pc = "returned"
    /\ Len(readings) = 2
    /\ Pending = {1, 2}
    /\ plays = NoPlays

\* C35 (as claimed): when a tick marks a reading played, the mood whose
\* playlist it requested (the mood its SELECT returned) is the user_mood the
\* reading holds at that moment, /api/manual-mood requests running in
\* between included.
C35_PlaysMoodHeldAtMark ==
    [][\A d \in DAEMONS :
          (/\ daemon[d].pc = "played"
           /\ daemon'[d].pc = "sleep"
           /\ readings'[daemon[d].reading_id].playlist_played)
              => daemon[d].mood = readings'[daemon[d].reading_id].user_mood]_vars

\* the rows of the tuning log for category m
LogRows(m) == {i \in DOMAIN tuning_log : tuning_log[i].reported_mood = m}

\* the most recently appended row of the tuning log for category m
LastLogged(m) == tuning_log[CHOOSE i \in LogRows(m) : \A j \in LogRows(m) : j <= i]

\* C36 (as claimed): for each category with a tuning log row, the most
\* recently appended row records the interval of the category's current
\* threshold row, whenever no tune request is between its two commits, tune
\* requests for the same category having interleaved.
C36_LastLogMatchesThreshold ==
    InFlight = {} =>
        \A m \in DOMAIN thresholds :
            LogRows(m) # {} =>
                /\ LastLogged(m).min_temp = thresholds[m].min
                /\ LastLogged(m).max_temp = thresholds[m].max

\* every order in which the store can return the rows of the categories S
RECURSIVE RowOrders(_)
RowOrders(S) ==
    IF S = {} THEN {<<>>}
    ELSE UNION {{<<m>> \o o : o \in RowOrders(S \ {m})} : m \in S}

\* what the classifier returns for t under each order of the current rows
ResultsOverOrders(t) ==
    {determine_mood_from_temperature(t, load_user_thresholds(thresholds, o)) :
        o \in RowOrders(DOMAIN thresholds)}

\* C37: the five default intervals are pairwise disjoint, so with exactly the
\* defaults in the store a classification returns the same category under
\* every order of the rows; under any table, two orders can give different
\* categories only for a temperature that lies in two intervals.
C37_DefaultsOrderIndependent ==
    /\ \A a, b \in DOMAIN DEFAULT_THRESHOLDS :
          a # b => \/ DEFAULT_THRESHOLDS[a].max < DEFAULT_THRESHOLDS[b].min
                   \/ DEFAULT_THRESHOLDS[b].max < DEFAULT_THRESHOLDS[a].min
    /\ (cls.mood # NoMood /\ ClassifiedCurrentTable) =>
          /\ cls.mood \in ResultsOverOrders(cls.t)
          /\ thresholds = DEFAULT_THRESHOLDS => ResultsOverOrders(cls.t) = {cls.mood}
          /\ Cardinality(ResultsOverOrders(cls.t)) > 1 => Cardinality(Matching(cls.t)) > 1

\* C37 witness: with the defaults, 37.3 was classified "energetic" although
\* the store returned another row first.
C37_Witness ==
    /\ thresholds = DEFAULT_THRESHOLDS
    /\ cls.t = 3730
    /\ cls.mood = "energetic"
    /\ cls.rows # <<>>
    /\ Head(cls.rows).mood # "energetic"

\* C37 witness: after "happy" was tuned at 37.3 its interval overlaps
\* "energetic", and 37.3 is "happy" or "energetic" depending on the order.
C37_WitnessOverlap ==
    /\ tuning_log # <<>>
    /\ cls.t = 3730
    /\ ClassifiedCurrentTable
    /\ ResultsOverOrders(3730) = {"happy", "energetic"}

====
